---- MODULE Spec2Model ----
(***************************************************************************)
(* Model of tensorflow/compiler/mlir/xla/transforms/legalize_control_flow.cc *)
(*                                                                         *)
(* The IR of one function is an arena `ir`:                                *)
(*   ir.regions : region id -> sequence of block ids (first = entry)       *)
(*   ir.blocks  : block id  -> [params, ptypes, ops]; the terminator is    *)
(*                the last element of ops, as in MLIR                      *)
(*   ir.ops     : op id     -> [kind, operands, regions, succs, args,      *)
(*                attr, ty]; the result value of an op is the op's id      *)
(*   ir.body    : the region that is the function body                     *)
(*   ir.next    : the next unused id (regions, blocks, ops and block       *)
(*                parameters share one id space)                           *)
(***************************************************************************)
EXTENDS Integers, Sequences, FiniteSets, TLC

VARIABLES
  ir,               \* the function being rewritten in place
  src,              \* the function as it was handed to the pass (never changes)
  pc,               \* position of runOnFunction
  conditional_ops,  \* llvm::SmallVector<ConditionalOp, 4> conditional_ops
  while_ops,        \* llvm::SmallVector<WhileOp, 4> while_ops
  idx,              \* position of the running range-for loop in its vector
  lowered,          \* history: op id -> what its successful lowering created
  last,             \* history: the most recent lowering call and its outcome
  inp,              \* run-time arguments of the lowered function
  xpc,              \* execution of the lowered function: block or status
  env,              \* execution: value id -> run-time value
  trace,            \* execution: visited blocks with the arguments received
  ret               \* execution: values returned by the function

vars == <<ir, src, pc, conditional_ops, while_ops, idx, lowered, last,
          inp, xpc, env, trace, ret>>

\* Bound on the number of block visits of one execution.
MaxSteps == 12
\* The run-time argument x of the function ranges over XMin..XMax.
XMax == 11

----------------------------------------------------------------------------
\* Generic helpers

Range(s) == {s[i] : i \in DOMAIN s}

Max(S) == CHOOSE m \in S : \A y \in S : y <= m

Restrict(f, S) == [x \in S |-> f[x]]

IndexOf(s, e) == CHOOSE i \in DOMAIN s : s[i] = e

Remove(s, e) == SelectSeq(s, LAMBDA y : y # e)

MapSeq(s, F(_)) == [i \in DOMAIN s |-> F(s[i])]

----------------------------------------------------------------------------
\* IR object model (mlir::Operation, mlir::Block, mlir::Region)

MkOp(kind, operands, regions, succs, args, attr, ty) ==
  [kind |-> kind, operands |-> operands, regions |-> regions,
   succs |-> succs, args |-> args, attr |-> attr, ty |-> ty]

MkBlock(params, ptypes, ops) ==
  [params |-> params, ptypes |-> ptypes, ops |-> ops]

ReturnOp(vals) == MkOp("return", vals, <<>>, <<>>, <<>>, 0, "")

BranchOp(dest, args) == MkOp("br", <<>>, <<>>, <<dest>>, <<args>>, 0, "")

CondBranchOp(c, t, targs, f, fargs) ==
  MkOp("cond_br", <<c>>, <<>>, <<t, f>>, <<targs, fargs>>, 0, "")

ExtractElementOp(v) == MkOp("extract_element", <<v>>, <<>>, <<>>, <<>>, 0, "i1")

IsTerminatorKind(k) == k \in {"return", "br", "cond_br", "func_return", "other"}

\* Operation::getBlock
BlockOf(a, o) == CHOOSE b \in DOMAIN a.blocks : o \in Range(a.blocks[b].ops)

\* Block::getParent
RegionOf(a, b) == CHOOSE r \in DOMAIN a.regions : b \in Range(a.regions[r])

\* Block::getTerminator
Terminator(a, b) == a.blocks[b].ops[Len(a.blocks[b].ops)]

\* Every id owned by region r: r, its blocks, their parameters and operations,
\* and everything owned by the regions nested in those operations.
RECURSIVE Sub(_, _)
Sub(a, r) ==
  {r} \cup UNION {
    {b} \cup Range(a.blocks[b].params) \cup UNION {
      {o} \cup UNION {Sub(a, q) : q \in Range(a.ops[o].regions)}
      : o \in Range(a.blocks[b].ops)}
    : b \in Range(a.regions[r])}

\* BlockAndValueMapping::lookupOrDefault
Lookup(mapper, v) == IF v \in DOMAIN mapper THEN mapper[v] ELSE v

\* Block::splitBlock(op): the new block takes op and everything after it and
\* is inserted right after b; its id is a.next.
splitBlock(a, b, o) ==
  LET ops == a.blocks[b].ops
      i   == IndexOf(ops, o)
      nb  == a.next
      r   == RegionOf(a, b)
      bs  == a.regions[r]
      j   == IndexOf(bs, b)
  IN [a EXCEPT
        !.blocks = (nb :> MkBlock(<<>>, <<>>, SubSeq(ops, i, Len(ops))))
                   @@ [@ EXCEPT ![b].ops = SubSeq(ops, 1, i - 1)],
        !.regions[r] = SubSeq(bs, 1, j) \o <<nb>> \o SubSeq(bs, j + 1, Len(bs)),
        !.next = nb + 1]

\* Region::cloneInto(dest, before, mapper): every entity x owned by r is copied
\* as x + a.next, operands and successors resolve through the mapping, values
\* defined outside r and not mapped are referenced as they are.
cloneInto(a, r, dest, before, mapper) ==
  LET S    == Sub(a, r) \ {r}
      off  == a.next
      m2   == mapper @@ [x \in S |-> x + off]
      mp(v) == Lookup(m2, v)
      sh(v) == v + off
      nblocks == [nb \in {x + off : x \in S \cap DOMAIN a.blocks} |->
                   LET b == a.blocks[nb - off]
                   IN MkBlock(MapSeq(b.params, sh), b.ptypes, MapSeq(b.ops, sh))]
      nops == [no \in {x + off : x \in S \cap DOMAIN a.ops} |->
                LET o == a.ops[no - off]
                IN [o EXCEPT !.operands = MapSeq(@, mp),
                             !.regions = MapSeq(@, sh),
                             !.succs = MapSeq(@, mp),
                             !.args = [i \in DOMAIN @ |-> MapSeq(@[i], mp)]]]
      nregs == [nr \in {x + off : x \in S \cap DOMAIN a.regions} |->
                 MapSeq(a.regions[nr - off], sh)]
      ds == a.regions[dest]
      j  == IndexOf(ds, before)
  IN [ir |-> [a EXCEPT
                !.blocks = nblocks @@ @,
                !.ops = nops @@ @,
                !.regions = nregs @@
                   [@ EXCEPT ![dest] = SubSeq(ds, 1, j - 1)
                                        \o MapSeq(a.regions[r], sh)
                                        \o SubSeq(ds, j, Len(ds))],
                !.next = Max(S \cup {0}) + off + 1],
      mapper |-> m2]

\* OpBuilder::create with the insertion point at the end of block b; the new
\* operation's id is a.next.
createAtEnd(a, b, op) ==
  [a EXCEPT !.ops = (a.next :> op) @@ @,
            !.blocks[b].ops = Append(@, a.next),
            !.next = a.next + 1]

\* Operation::erase: the operation leaves its block and is destroyed together
\* with the regions it owns.
eraseOp(a, o) ==
  LET dead == {o} \cup UNION {Sub(a, q) : q \in Range(a.ops[o].regions)}
      b    == BlockOf(a, o)
  IN [a EXCEPT
        !.ops = Restrict(@, DOMAIN @ \ dead),
        !.blocks = Restrict([@ EXCEPT ![b].ops = Remove(@, o)], DOMAIN @ \ dead),
        !.regions = Restrict(@, DOMAIN @ \ dead)]

\* Block::addArgument(type): the new parameter's id is a.next.
addArgument(a, b, ty) ==
  [a EXCEPT !.blocks[b].params = Append(@, a.next),
            !.blocks[b].ptypes = Append(@, ty),
            !.next = a.next + 1]

\* Block::getArgument(i), i counted from 0
getArgument(a, b, i) == a.blocks[b].params[i + 1]

\* Value::replaceAllUsesWith
replaceAllUsesWith(a, old, new) ==
  LET rp(v) == IF v = old THEN new ELSE v
  IN [a EXCEPT !.ops = [o \in DOMAIN @ |->
        [@[o] EXCEPT !.operands = MapSeq(@, rp),
                     !.args = [i \in DOMAIN @ |-> MapSeq(@[i], rp)]]]]

----------------------------------------------------------------------------
\* The lowering (legalize_control_flow.cc)

\* The value an out-of-range Operation::getOperand(0) yields when the read does
\* not trap: it names no value of the function.
Indeterminate == 0

RECURSIVE ReplaceTerminatorsFrom(_, _, _, _, _)
ReplaceTerminatorsFrom(a, old_blocks, i, target_block, mapper) ==
  IF i > Len(old_blocks) THEN [ok |-> TRUE, ir |-> a]
  ELSE
    LET block     == mapper[old_blocks[i]]
        return_op == Terminator(a, block)
    IN IF a.ops[return_op].kind # "return" THEN [ok |-> FALSE, ir |-> a]
       ELSE
         LET args == a.ops[return_op].operands
             a1   == createAtEnd(a, block, BranchOp(target_block, args))
             a2   == eraseOp(a1, return_op)
         IN ReplaceTerminatorsFrom(a2, old_blocks, i + 1, target_block, mapper)

\* Mutant: the branch is created without the operands of the Return.
RECURSIVE ReplaceTerminators_NoArgsFrom(_, _, _, _, _)
ReplaceTerminators_NoArgsFrom(a, old_blocks, i, target_block, mapper) ==
  IF i > Len(old_blocks) THEN [ok |-> TRUE, ir |-> a]
  ELSE
    LET block     == mapper[old_blocks[i]]
        return_op == Terminator(a, block)
    IN IF a.ops[return_op].kind # "return" THEN [ok |-> FALSE, ir |-> a]
       ELSE ReplaceTerminators_NoArgsFrom(
              eraseOp(createAtEnd(a, block, BranchOp(target_block, <<>>)), return_op),
              old_blocks, i + 1, target_block, mapper)

ReplaceTerminators_NoArgs(a, region, target_block, mapper) ==
  ReplaceTerminators_NoArgsFrom(a, a.regions[region], 1, target_block, mapper)

\* LogicalResult ReplaceTerminators(region, target_block, loc, mapper, builder)
ReplaceTerminators(a, region, target_block, mapper) ==
  ReplaceTerminatorsFrom(a, a.regions[region], 1, target_block, mapper)

\* Mutant: the two target blocks are exchanged.
PredBranch_Swapped(cond_value, true_block, true_arg, false_block, false_arg) ==
  CondBranchOp(cond_value, false_block, <<true_arg>>, true_block, <<false_arg>>)

\* builder.create<mlir::CondBranchOp>(loc, cond_value, true_block,
\*   conditional_op.true_arg(), false_block, conditional_op.false_arg())
PredBranch(cond_value, true_block, true_arg, false_block, false_arg) ==
  CondBranchOp(cond_value, true_block, <<true_arg>>, false_block, <<false_arg>>)

\* LogicalResult LowerConditionalOp(conditional_op).  The result carries the
\* rewritten function and, as history, the blocks the call created.
LowerConditionalOp(a, conditional_op) ==
  LET op         == a.ops[conditional_op]
      pred       == op.operands[1]
      true_arg   == op.operands[2]
      false_arg  == op.operands[3]
      true_branch  == op.regions[1]
      false_branch == op.regions[2]
      orig_block == BlockOf(a, conditional_op)
      tail_block == a.next
      a1     == splitBlock(a, orig_block, conditional_op)
      parent == RegionOf(a1, orig_block)
      c1     == cloneInto(a1, true_branch, parent, tail_block, <<>>)
      c2     == cloneInto(c1.ir, false_branch, parent, tail_block, c1.mapper)
      mapper == c2.mapper
      true_block  == mapper[a.regions[true_branch][1]]
      false_block == mapper[a.regions[false_branch][1]]
      cond_value  == c2.ir.next
      a2 == createAtEnd(c2.ir, orig_block, ExtractElementOp(pred))
      a3 == createAtEnd(a2, orig_block,
              PredBranch(cond_value, true_block, true_arg, false_block, false_arg))
      r1 == ReplaceTerminators(a3, true_branch, tail_block, mapper)
      r2 == ReplaceTerminators(r1.ir, false_branch, tail_block, mapper)
      a4 == addArgument(r2.ir, tail_block, op.ty)
      a5 == replaceAllUsesWith(a4, conditional_op, getArgument(a4, tail_block, 0))
      a6 == eraseOp(a5, conditional_op)
      info(st, res, rt) ==
        [status |-> st, ir |-> res, op |-> conditional_op, kind |-> "conditional",
         orig |-> orig_block, tail |-> tail_block, mapper |-> mapper,
         entry1 |-> true_block, entry2 |-> false_block, rtOk |-> rt]
  IN IF ~r1.ok THEN info("failure", r1.ir, {})
     ELSE IF ~r2.ok THEN info("failure", r2.ir, {true_branch})
     ELSE info("success", a6, {true_branch, false_branch})

\* Mutant: the arguments are taken from the block being rewritten.
BodyBlockArguments_OwnBlock(a, cond_block, new_block) == a.blocks[new_block].params

\* llvm::SmallVector<Value*, 4> body_block_arguments(cond_block->args_begin(),
\* cond_block->args_end()), while the clone new_block is being rewritten.
BodyBlockArguments(a, cond_block, new_block) == a.blocks[cond_block].params

\* Mutant: the targets of the loop's conditional branch are exchanged.
LoopBranch_Swapped(cond_value, body_block, tail_block, body_block_arguments) ==
  CondBranchOp(cond_value, tail_block, body_block_arguments,
               body_block, body_block_arguments)

\* builder.create<mlir::CondBranchOp>(loc, cond_value, body_block,
\*   body_block_arguments, tail_block, body_block_arguments)
LoopBranch(cond_value, body_block, tail_block, body_block_arguments) ==
  CondBranchOp(cond_value, body_block, body_block_arguments,
               tail_block, body_block_arguments)

\* The loop of LowerWhileOp over the blocks of the condition region.  Reading
\* operand 0 of a Return that has no operand is undefined: the read traps, or
\* it yields an indeterminate value and the rewrite goes on.
RECURSIVE WhileCondLoop(_, _, _, _, _, _, _)
WhileCondLoop(a, old_blocks, i, mapper, cond_block, body_block, tail_block) ==
  IF i > Len(old_blocks) THEN {[status |-> "success", ir |-> a]}
  ELSE
    LET new_block == mapper[old_blocks[i]]
        return_op == Terminator(a, new_block)
        rewritten(return_value) ==
          LET a1 == createAtEnd(a, new_block, ExtractElementOp(return_value))
              a2 == createAtEnd(a1, new_block,
                      LoopBranch(a.next, body_block, tail_block,
                                 BodyBlockArguments(a, cond_block, new_block)))
          IN eraseOp(a2, return_op)
    IN IF a.ops[return_op].kind # "return" THEN {[status |-> "failure", ir |-> a]}
       ELSE IF Len(a.ops[return_op].operands) = 0
       THEN {[status |-> "crash", ir |-> a]}
            \cup WhileCondLoop(rewritten(Indeterminate), old_blocks, i + 1,
                               mapper, cond_block, body_block, tail_block)
       ELSE WhileCondLoop(rewritten(a.ops[return_op].operands[1]), old_blocks,
                          i + 1, mapper, cond_block, body_block, tail_block)

\* The loop of LowerWhileOp over the blocks of the body region.
RECURSIVE WhileBodyLoop(_, _, _, _, _)
WhileBodyLoop(a, old_blocks, i, mapper, cond_block) ==
  IF i > Len(old_blocks) THEN [ok |-> TRUE, ir |-> a]
  ELSE
    LET new_block == mapper[old_blocks[i]]
        return_op == Terminator(a, new_block)
    IN IF a.ops[return_op].kind # "return" THEN [ok |-> FALSE, ir |-> a]
       ELSE
         LET body_results == a.ops[return_op].operands
             a1 == createAtEnd(a, new_block, BranchOp(cond_block, body_results))
             a2 == eraseOp(a1, return_op)
         IN WhileBodyLoop(a2, old_blocks, i + 1, mapper, cond_block)

\* LogicalResult LowerWhileOp(while_op): the set of outcomes of the call.
LowerWhileOp(a, while_op) ==
  LET op   == a.ops[while_op]
      cond == op.regions[1]
      body == op.regions[2]
      orig_block == BlockOf(a, while_op)
      tail_block == a.next
      a1     == splitBlock(a, orig_block, while_op)
      parent == RegionOf(a1, orig_block)
      c1     == cloneInto(a1, cond, parent, tail_block, <<>>)
      c2     == cloneInto(c1.ir, body, parent, tail_block, c1.mapper)
      mapper == c2.mapper
      cond_block == mapper[a.regions[cond][1]]
      body_block == mapper[a.regions[body][1]]
      a2 == createAtEnd(c2.ir, orig_block, BranchOp(cond_block, op.operands))
      info(st, res) ==
        [status |-> st, ir |-> res, op |-> while_op, kind |-> "while",
         orig |-> orig_block, tail |-> tail_block, mapper |-> mapper,
         entry1 |-> cond_block, entry2 |-> body_block, rtOk |-> {}]
      finish(c) ==
        LET b == WhileBodyLoop(c.ir, a.regions[body], 1, mapper, cond_block)
            a3 == addArgument(b.ir, tail_block, op.ty)
            a4 == replaceAllUsesWith(a3, while_op, getArgument(a3, tail_block, 0))
            a5 == eraseOp(a4, while_op)
        IN IF c.status # "success" THEN info(c.status, c.ir)
           ELSE IF ~b.ok THEN info("failure", b.ir)
           ELSE info("success", a5)
  IN {finish(c) : c \in WhileCondLoop(a2, a.regions[cond], 1, mapper,
                                      cond_block, body_block, tail_block)}

\* FuncOp::walk: post-order; the operations nested in an operation are visited
\* before the operation itself.
RECURSIVE ConcatAll(_)
ConcatAll(ss) == IF Len(ss) = 0 THEN <<>> ELSE Head(ss) \o ConcatAll(Tail(ss))

RECURSIVE WalkOp(_, _, _)
RECURSIVE WalkRegion(_, _, _)
WalkOp(a, o, kind) ==
  ConcatAll([i \in DOMAIN a.ops[o].regions |-> WalkRegion(a, a.ops[o].regions[i], kind)])
  \o (IF a.ops[o].kind = kind THEN <<o>> ELSE <<>>)

WalkRegion(a, r, kind) ==
  ConcatAll([i \in DOMAIN a.regions[r] |->
    LET ops == a.blocks[a.regions[r][i]].ops
    IN ConcatAll([j \in DOMAIN ops |-> WalkOp(a, ops[j], kind)])])

\* Mutant: the traversal does not descend into the regions of an operation.
walk_NotNested(a, kind) ==
  ConcatAll([i \in DOMAIN a.regions[a.body] |->
    SelectSeq(a.blocks[a.regions[a.body][i]].ops, LAMBDA o : a.ops[o].kind = kind)])

walk(a, kind) == WalkRegion(a, a.body, kind)

----------------------------------------------------------------------------
\* The functions handed to the pass.  A function has one block with the
\* parameters p (the predicate) and x, a constant y, one or two structured
\* operations, and a use of the last result next to the function's return.

\* A piece of a function: id -> tagged region, block or operation.
Tag(t, m) == [i \in DOMAIN m |-> [t |-> t, v |-> m[i]]]

Part(regions, blocks, ops) == Tag("region", regions) @@ Tag("block", blocks) @@ Tag("op", ops)

Merge(p, q) == p @@ q

Untag(all, t) == [i \in {k \in DOMAIN all : all[k].t = t} |-> all[i].v]

ConstOp(k) == MkOp("const", <<>>, <<>>, <<>>, <<>>, k, "tensor<i32>")
AddOp(v, k) == MkOp("add", <<v>>, <<>>, <<>>, <<>>, k, "tensor<i32>")
LtOp(v, k) == MkOp("lt", <<v>>, <<>>, <<>>, <<>>, k, "tensor<i1>")
OtherTerminator == MkOp("other", <<>>, <<>>, <<>>, <<>>, 0, "")
FuncReturnOp(vals) == MkOp("func_return", vals, <<>>, <<>>, <<>>, 0, "")
ConditionalOp(pred, true_arg, false_arg, true_branch, false_branch) ==
  MkOp("conditional", <<pred, true_arg, false_arg>>,
       <<true_branch, false_branch>>, <<>>, <<>>, 0, "tensor<i32>")
WhileOp(val, cond, body) ==
  MkOp("while", <<val>>, <<cond, body>>, <<>>, <<>>, 0, "tensor<i32>")

\* A region at id R whose entry block R+1 has the parameter R+2 and the
\* operations R+3, R+4; a second block, when present, is R+6 with the
\* parameter R+7 and the operations R+8, R+9.
OneBlock(R, params, op3, op4) ==
  Part(R :> <<R + 1>>,
       (R + 1) :> MkBlock(params, [i \in DOMAIN params |-> "tensor<i32>"], <<R + 3, R + 4>>),
       (R + 3) :> op3 @@ (R + 4) :> op4)

SecondBlock(R, op8, op9) ==
  Part(R :> <<R + 1, R + 6>>,
       (R + 6) :> MkBlock(<<R + 7>>, <<"tensor<i32>">>, <<R + 8, R + 9>>),
       (R + 8) :> op8 @@ (R + 9) :> op9)

FlatRegion(R, f, X) ==
  LET a == R + 2
      one(op3, op4) == OneBlock(R, <<a>>, op3, op4)
  IN CASE f = "const5"   -> one(ConstOp(5), ReturnOp(<<R + 3>>))
       [] f = "const7"   -> one(ConstOp(7), ReturnOp(<<R + 3>>))
       [] f = "add1"     -> one(AddOp(a, 1), ReturnOp(<<R + 3>>))
       [] f = "add2"     -> one(AddOp(a, 2), ReturnOp(<<R + 3>>))
       [] f = "same"     -> one(ConstOp(5), ReturnOp(<<a>>))
       [] f = "capture"  -> one(AddOp(X, 3), ReturnOp(<<R + 3>>))
       [] f = "noparam"  -> OneBlock(R, <<>>, ConstOp(5), ReturnOp(<<R + 3>>))
       [] f = "ret0"     -> one(AddOp(a, 1), ReturnOp(<<>>))
       [] f = "ret2"     -> one(AddOp(a, 1), ReturnOp(<<R + 3, a>>))
       [] f = "other"    -> one(AddOp(a, 1), OtherTerminator)
       [] f = "two"      -> Merge(SecondBlock(R, AddOp(R + 7, 2), ReturnOp(<<R + 8>>)),
                                  one(AddOp(a, 1), ReturnOp(<<R + 3>>)))
       [] f = "twoBad"   -> Merge(SecondBlock(R, AddOp(R + 7, 2), OtherTerminator),
                                  one(AddOp(a, 1), ReturnOp(<<R + 3>>)))
       [] f = "lt10"     -> one(LtOp(a, 10), ReturnOp(<<R + 3>>))
       [] f = "lt10ret0" -> one(LtOp(a, 10), ReturnOp(<<>>))
       [] f = "lt10ret2" -> one(LtOp(a, 10), ReturnOp(<<R + 3, a>>))
       [] f = "lt10other" -> one(LtOp(a, 10), OtherTerminator)
       [] f = "lt10two"  -> Merge(SecondBlock(R, LtOp(R + 7, 10), ReturnOp(<<R + 8>>)),
                                  one(LtOp(a, 10), ReturnOp(<<R + 3>>)))
       [] f = "lt10twoBad" -> Merge(SecondBlock(R, LtOp(R + 7, 10), OtherTerminator),
                                    one(LtOp(a, 10), ReturnOp(<<R + 3>>)))
       [] f = "ret0twoBad" -> Merge(SecondBlock(R, LtOp(R + 7, 10), OtherTerminator),
                                    one(LtOp(a, 10), ReturnOp(<<>>)))

\* A region that may hold a structured operation (at R+3) of its own.
RegionT(R, f, P, X) ==
  LET a == R + 2
      nest(op) == Merge(OneBlock(R, <<a>>, op, ReturnOp(<<R + 3>>)),
                        Merge(FlatRegion(R + 10, IF op.kind = "while" THEN "lt10" ELSE "const5", X),
                              FlatRegion(R + 20, "add1", X)))
  IN CASE f = "nestedCond"  -> nest(ConditionalOp(P, a, a, R + 10, R + 20))
       [] f = "nestedWhile" -> nest(WhileOp(a, R + 10, R + 20))
       [] OTHER -> FlatRegion(R, f, X)

\* A structured operation at id B with its regions at B+10 and B+40.
Item(B, it, P, A1, A2, X) ==
  Merge(Part(<<>>, <<>>,
             B :> (IF it.kind = "conditional"
                   THEN ConditionalOp(P, A1, A2, B + 10, B + 40)
                   ELSE WhileOp(A1, B + 10, B + 40))),
        Merge(RegionT(B + 10, it.f1, P, X), RegionT(B + 40, it.f2, P, X)))

Function(items) ==
  LET P == 3
      X == 4
      Y == 5
      i1 == 10
      i2 == 80
      lastv == IF Len(items) = 1 THEN i1 ELSE i2
      top == Part(1 :> <<2>>,
                  2 :> MkBlock(<<P, X>>, <<"tensor<i1>", "tensor<i32>">>,
                               <<Y, i1>> \o (IF Len(items) = 1 THEN <<>> ELSE <<i2>>)
                               \o <<6, 7>>),
                  Y :> ConstOp(20) @@ 6 :> AddOp(lastv, 100)
                  @@ 7 :> FuncReturnOp(<<lastv, 6>>))
      p1 == Merge(top, Item(i1, items[1], P, X, Y, X))
      p2 == IF Len(items) = 1 THEN p1 ELSE Merge(p1, Item(i2, items[2], P, i1, X, X))
  IN [regions |-> Untag(p2, "region"), blocks |-> Untag(p2, "block"),
      ops |-> Untag(p2, "op"), body |-> 1, next |-> 150]

Cond(f1, f2) == [kind |-> "conditional", f1 |-> f1, f2 |-> f2]
While(f1, f2) == [kind |-> "while", f1 |-> f1, f2 |-> f2]

Items ==
  { Cond("const5", "const7"), Cond("add1", "capture"), Cond("two", "add2"),
    Cond("ret2", "ret2"), Cond("ret0", "ret0"), Cond("const5", "ret2"),
    Cond("noparam", "const7"),
    Cond("other", "const5"), Cond("const5", "other"), Cond("twoBad", "const7"),
    Cond("nestedCond", "const7"), Cond("const5", "nestedWhile"),
    While("lt10", "add1"), While("lt10", "add2"), While("lt10", "same"),
    While("lt10two", "add1"), While("lt10", "two"),
    While("lt10ret0", "add1"), While("lt10ret2", "add1"),
    While("lt10", "ret2"), While("lt10", "ret0"), While("lt10", "noparam"),
    While("lt10other", "add1"), While("lt10", "other"), While("lt10twoBad", "add1"),
    While("ret0twoBad", "add1"), While("lt10", "twoBad"),
    While("lt10", "nestedCond"), While("lt10", "nestedWhile") }

PairItems ==
  { Cond("const5", "const7"), Cond("nestedCond", "const7"), Cond("add1", "capture"), Cond("const5", "other"),
    Cond("const5", "nestedWhile"),
    While("lt10", "add1"), While("lt10", "other"), While("lt10two", "add2") }

Programs ==
  {Function(<<i>>) : i \in Items}
  \cup {Function(<<i, j>>) : i \in PairItems, j \in PairItems}

----------------------------------------------------------------------------
\* Execution of the lowered function (the standard dialect's block semantics)

\* The operations of a block before its terminator, in order.
RECURSIVE EvalOps(_, _, _, _)
EvalOps(a, ops, i, e) ==
  IF i >= Len(ops) THEN [ok |-> TRUE, env |-> e]
  ELSE
    LET o == ops[i]
        op == a.ops[o]
        defined == \A k \in DOMAIN op.operands : op.operands[k] \in DOMAIN e
        v == e[op.operands[1]]
        bind(val) == EvalOps(a, ops, i + 1, (o :> val) @@ e)
    IN IF ~defined THEN [ok |-> FALSE, env |-> e]
       ELSE CASE op.kind = "const" -> bind(op.attr)
              [] op.kind = "add" -> bind(v + op.attr)
              [] op.kind = "lt" -> bind(IF v < op.attr THEN 1 ELSE 0)
              [] op.kind = "extract_element" -> bind(v)
              [] OTHER -> [ok |-> FALSE, env |-> e]

\* One block visit: its operations, then its terminator.  A transfer whose
\* argument count differs from the target's parameter count, an operand without
\* a definition, and an operation the standard dialect cannot run are invalid.
ExecStep(a, blk, e) ==
  LET ops == a.blocks[blk].ops
      r   == EvalOps(a, ops, 1, e)
      t   == a.ops[Terminator(a, blk)]
      stop(st, vals) == [st |-> st, blk |-> blk, env |-> r.env, args |-> vals]
      known(vals) == \A k \in DOMAIN vals : vals[k] \in DOMAIN r.env
      goto(dest, vals) ==
        LET ps == a.blocks[dest].params
            xs == [k \in DOMAIN vals |-> r.env[vals[k]]]
        IN IF ~known(vals) \/ Len(ps) # Len(vals) THEN stop("invalid", <<>>)
           ELSE [st |-> "running", blk |-> dest, args |-> xs,
                 env |-> [k \in Range(ps) |-> xs[IndexOf(ps, k)]] @@ r.env]
  IN IF ~r.ok THEN stop("invalid", <<>>)
     ELSE CASE t.kind = "br" -> goto(t.succs[1], t.args[1])
            [] t.kind = "cond_br" ->
                 IF ~known(t.operands) THEN stop("invalid", <<>>)
                 ELSE IF r.env[t.operands[1]] # 0 THEN goto(t.succs[1], t.args[1])
                 ELSE goto(t.succs[2], t.args[2])
            [] t.kind = "func_return" ->
                 IF known(t.operands)
                 THEN stop("returned", [k \in DOMAIN t.operands |-> r.env[t.operands[k]]])
                 ELSE stop("invalid", <<>>)
            [] OTHER -> stop("invalid", <<>>)

----------------------------------------------------------------------------
\* Meaning of the structured operations before lowering: a Conditional yields
\* what the region chosen by its predicate returns on that region's argument; a
\* Loop tests its state with the condition region and replaces it by what the
\* body region returns, until the condition is false.

RECURSIVE RefOps(_, _, _, _, _)
RECURSIVE RefRegion(_, _, _, _, _)
RECURSIVE RefWhile(_, _, _, _, _)

\* The entry block of region r on the arguments xs: the values of its Return.
RefRegion(a, r, xs, e, fuel) ==
  LET b  == a.regions[r][1]
      ps == a.blocks[b].params
      e1 == [k \in Range(ps) |-> xs[IndexOf(ps, k)]] @@ e
      res == RefOps(a, a.blocks[b].ops, 1, e1, fuel)
      t  == a.ops[Terminator(a, b)]
  IN IF Len(ps) # Len(xs) THEN [ok |-> FALSE, vals |-> <<>>]
     ELSE IF ~res.ok \/ t.kind # "return"
             \/ \E k \in DOMAIN t.operands : t.operands[k] \notin DOMAIN res.env
     THEN [ok |-> FALSE, vals |-> <<>>]
     ELSE [ok |-> TRUE, vals |-> [k \in DOMAIN t.operands |-> res.env[t.operands[k]]]]

\* The Loop o from state x: the states at which the condition is tested, the
\* last one being the state at which it is false.
RefWhile(a, o, x, e, fuel) ==
  LET c == RefRegion(a, a.ops[o].regions[1], <<x>>, e, fuel)
      b == RefRegion(a, a.ops[o].regions[2], <<x>>, e, fuel)
      rest == RefWhile(a, o, b.vals[1], e, fuel - 1)
  IN IF fuel = 0 \/ ~c.ok \/ Len(c.vals) # 1 THEN [ok |-> FALSE, states |-> <<x>>]
     ELSE IF c.vals[1] = 0 THEN [ok |-> TRUE, states |-> <<x>>]
     ELSE IF ~b.ok \/ Len(b.vals) # 1 THEN [ok |-> FALSE, states |-> <<x>>]
     ELSE [ok |-> rest.ok, states |-> <<x>> \o rest.states]

\* The operations ops[i], ... of a block before its terminator.
RefOps(a, ops, i, e, fuel) ==
  IF i >= Len(ops) THEN [ok |-> TRUE, env |-> e]
  ELSE
    LET o == ops[i]
        op == a.ops[o]
        defined == \A k \in DOMAIN op.operands : op.operands[k] \in DOMAIN e
        v == e[op.operands[1]]
        bind(val) == RefOps(a, ops, i + 1, (o :> val) @@ e, fuel)
        chosen == IF v # 0 THEN 1 ELSE 2
        branch == RefRegion(a, op.regions[chosen], <<e[op.operands[chosen + 1]]>>, e, fuel)
        loop == RefWhile(a, o, v, e, fuel)
    IN IF ~defined THEN [ok |-> FALSE, env |-> e]
       ELSE CASE op.kind = "const" -> bind(op.attr)
              [] op.kind = "add" -> bind(v + op.attr)
              [] op.kind = "lt" -> bind(IF v < op.attr THEN 1 ELSE 0)
              [] op.kind = "extract_element" -> bind(v)
              [] op.kind = "conditional" ->
                   IF branch.ok /\ Len(branch.vals) = 1 THEN bind(branch.vals[1])
                   ELSE [ok |-> FALSE, env |-> e]
              [] op.kind = "while" ->
                   IF loop.ok THEN bind(loop.states[Len(loop.states)])
                   ELSE [ok |-> FALSE, env |-> e]
              [] OTHER -> [ok |-> FALSE, env |-> e]

\* The values known in the function's entry block when the function is called
\* with the arguments xs, as far as the structured program defines them.
RefEnv(a, xs) ==
  LET b  == a.regions[a.body][1]
      ps == a.blocks[b].params
  IN [k \in Range(ps) |-> xs[IndexOf(ps, k)]]

\* The environment just before operation o of the entry block runs.
RefBefore(a, xs, o) ==
  LET ops == a.blocks[a.regions[a.body][1]].ops
  IN RefOps(a, SubSeq(ops, 1, IndexOf(ops, o)), 1, RefEnv(a, xs), MaxSteps)

----------------------------------------------------------------------------
\* State machine

XMin == 7

NoCall == [status |-> "none", op |-> 0, kind |-> "", orig |-> 0, tail |-> 0,
           mapper |-> <<>>, entry1 |-> 0, entry2 |-> 0, rtOk |-> {}]

Idle == [st |-> "idle", blk |-> 0]

Init ==
  /\ src \in Programs
  /\ ir = src
  /\ pc = "start"
  /\ conditional_ops = <<>>
  /\ while_ops = <<>>
  /\ idx = 0
  /\ lowered = <<>>
  /\ last = [call |-> NoCall, pre |-> src]
  /\ inp = <<>>
  /\ xpc = Idle
  /\ env = <<>>
  /\ trace = <<>>
  /\ ret = <<>>

ExecVars == <<inp, xpc, env, trace, ret>>

\* What a successful lowering leaves behind, for the history variable.
Created(r) ==
  [kind |-> r.kind, orig |-> r.orig, tail |-> r.tail, entry1 |-> r.entry1,
   entry2 |-> r.entry2, clones |-> Range(r.mapper) \cap DOMAIN r.ir.blocks,
   arg |-> r.ir.blocks[r.tail].params[Len(r.ir.blocks[r.tail].params)]]

CallRecord(r) == [x \in DOMAIN NoCall |-> r[x]]

\* runOnFunction, lines 216-218
WalkConditionalOps ==
  /\ pc = "start"
  /\ conditional_ops' = walk(ir, "conditional")
  /\ idx' = 1
  /\ pc' = "lower_conditionals"
  /\ UNCHANGED <<ir, src, while_ops, lowered, last>>
  /\ UNCHANGED ExecVars

\* Mutant: a failed lowering is skipped and the loop goes on.
Apply_ContinueAfterFailure(r) ==
  /\ ir' = r.ir
  /\ last' = [call |-> CallRecord(r), pre |-> ir]
  /\ lowered' = IF r.status = "success" THEN (r.op :> Created(r)) @@ lowered ELSE lowered
  /\ idx' = idx + 1
  /\ pc' = IF r.status = "crash" THEN "crashed" ELSE pc

\* What a lowering call does to the pass: failure() ends it in
\* signalPassFailure, a trap ends the process.
Apply(r) ==
  /\ ir' = r.ir
  /\ last' = [call |-> CallRecord(r), pre |-> ir]
  /\ IF r.status = "success"
     THEN /\ lowered' = (r.op :> Created(r)) @@ lowered
          /\ idx' = idx + 1
          /\ pc' = pc
     ELSE /\ lowered' = lowered
          /\ idx' = idx
          /\ pc' = IF r.status = "failure" THEN "failed" ELSE "crashed"

\* runOnFunction, lines 220-222: one iteration of the loop over conditional_ops
LowerConditionalStep ==
  /\ pc = "lower_conditionals"
  /\ idx <= Len(conditional_ops)
  /\ Apply(LowerConditionalOp(ir, conditional_ops[idx]))
  /\ UNCHANGED <<src, conditional_ops, while_ops>>
  /\ UNCHANGED ExecVars

\* runOnFunction, lines 224-225
WalkWhileOps ==
  /\ pc = "lower_conditionals"
  /\ idx > Len(conditional_ops)
  /\ while_ops' = walk(ir, "while")
  /\ idx' = 1
  /\ pc' = "lower_whiles"
  /\ UNCHANGED <<ir, src, conditional_ops, lowered, last>>
  /\ UNCHANGED ExecVars

\* runOnFunction, lines 227-229: one iteration of the loop over while_ops
LowerWhileStep ==
  /\ pc = "lower_whiles"
  /\ idx <= Len(while_ops)
  /\ \E r \in LowerWhileOp(ir, while_ops[idx]) : Apply(r)
  /\ UNCHANGED <<src, conditional_ops, while_ops>>
  /\ UNCHANGED ExecVars

\* runOnFunction, line 230
Finish ==
  /\ pc = "lower_whiles"
  /\ idx > Len(while_ops)
  /\ pc' = "done"
  /\ UNCHANGED <<ir, src, conditional_ops, while_ops, idx, lowered, last>>
  /\ UNCHANGED ExecVars

PassVars == <<ir, src, pc, conditional_ops, while_ops, idx, lowered, last>>

\* The lowered function is called with the arguments p and x.
ExecEnter ==
  /\ pc = "done"
  /\ xpc.st = "idle"
  /\ \E p \in {0, 1}, x \in XMin..XMax :
       LET entry == ir.regions[ir.body][1]
           ps == ir.blocks[entry].params
       IN /\ inp' = <<p, x>>
          /\ xpc' = [st |-> "running", blk |-> entry]
          /\ env' = (ps[1] :> p) @@ (ps[2] :> x)
          /\ trace' = <<[blk |-> entry, args |-> <<p, x>>]>>
  /\ ret' = <<>>
  /\ UNCHANGED PassVars

\* The current block runs and control moves to its successor.
ExecBlock ==
  /\ xpc.st = "running"
  /\ Len(trace) < MaxSteps
  /\ LET r == ExecStep(ir, xpc.blk, env)
     IN /\ xpc' = [st |-> r.st, blk |-> r.blk]
        /\ env' = r.env
        /\ trace' = IF r.st = "running"
                    THEN Append(trace, [blk |-> r.blk, args |-> r.args])
                    ELSE trace
        /\ ret' = IF r.st = "returned" THEN r.args ELSE ret
  /\ UNCHANGED inp
  /\ UNCHANGED PassVars

Next ==
  \/ WalkConditionalOps
  \/ LowerConditionalStep
  \/ WalkWhileOps
  \/ LowerWhileStep
  \/ Finish
  \/ ExecEnter
  \/ ExecBlock

Spec == Init /\ [][Next]_vars

----------------------------------------------------------------------------
\* Vocabulary of the properties

Structured(a) == {o \in DOMAIN a.ops : a.ops[o].kind \in {"conditional", "while"}}

\* The structured operations of the function's entry block (not nested).
TopLevel(a, kind) ==
  {o \in Range(a.blocks[a.regions[a.body][1]].ops) : a.ops[o].kind = kind}

RegionBlocks(a, o) == UNION {Range(a.regions[r]) : r \in Range(a.ops[o].regions)}

EndsInReturn(a, b) == a.ops[Terminator(a, b)].kind = "return"

ReturnArity(a, b) == Len(a.ops[Terminator(a, b)].operands)

\* Every block of o's regions ends in a Return of exactly one value and each
\* region's entry block takes exactly one parameter.
OneValueRegions(a, o) ==
  /\ \A b \in RegionBlocks(a, o) : EndsInReturn(a, b) /\ ReturnArity(a, b) = 1
  /\ \A r \in Range(a.ops[o].regions) : Len(a.blocks[a.regions[r][1]].params) = 1

Visits(b) == {i \in DOMAIN trace : trace[i].blk = b}

ArgsAt(b) == LET sel == SelectSeq(trace, LAMBDA t : t.blk = b)
             IN [i \in DOMAIN sel |-> sel[i].args]

Wrap(xs) == [i \in DOMAIN xs |-> <<xs[i]>>]

\* The operands that named the result of o in the original function name v now.
UsesRewired(o, v) ==
  \A u \in (DOMAIN ir.ops \cap DOMAIN src.ops) \ {o} :
    \A k \in DOMAIN src.ops[u].operands :
      src.ops[u].operands[k] = o => ir.ops[u].operands[k] = v

\* What the Conditional c of the original function does on the arguments inp.
CondCase(c) ==
  LET before == RefBefore(src, inp, c)
      op == src.ops[c]
      chosen == IF before.env[op.operands[1]] # 0 THEN 1 ELSE 2
      arg == before.env[op.operands[chosen + 1]]
  IN [chosen |-> chosen, arg |-> arg,
      expected |-> RefRegion(src, op.regions[chosen], <<arg>>, before.env, MaxSteps)]

C1Delivered(c) ==
  LET L == lowered[c]
      k == CondCase(c)
      entry == IF k.chosen = 1 THEN L.entry1 ELSE L.entry2
      other == IF k.chosen = 1 THEN L.entry2 ELSE L.entry1
  IN /\ xpc.st = "invalid" => Visits(L.tail) # {}
     /\ \A i \in Visits(L.tail) :
          /\ trace[i].args = k.expected.vals
          /\ Len(k.expected.vals) = 1
          /\ env[L.arg] = k.expected.vals[1]
          /\ ArgsAt(entry) = << <<k.arg>> >>
          /\ ArgsAt(other) = <<>>
     /\ UsesRewired(c, L.arg)

C1Lowered ==
  {c \in TopLevel(src, "conditional") \cap DOMAIN lowered :
     pc = "done" /\ xpc.st # "idle" /\ RefBefore(src, inp, c).ok}

LoopCase(w) ==
  LET before == RefBefore(src, inp, w)
  IN RefWhile(src, w, before.env[src.ops[w].operands[1]], before.env, MaxSteps)

IsPrefix(s, t) == Len(s) <= Len(t) /\ \A i \in DOMAIN s : s[i] = t[i]

C2Lowered ==
  {w \in TopLevel(src, "while") \cap DOMAIN lowered :
     pc = "done" /\ xpc.st # "idle" /\ RefBefore(src, inp, w).ok}

C2Threads(w) ==
  LET L == lowered[w]
      states == LoopCase(w).states
      N == Len(states) - 1
  IN /\ xpc.st = "invalid" => Visits(L.tail) # {}
     /\ IsPrefix(ArgsAt(L.entry1), Wrap(states))
     /\ IsPrefix(ArgsAt(L.entry2), Wrap(SubSeq(states, 1, N)))
     /\ Len(ArgsAt(L.entry2)) \in {Len(ArgsAt(L.entry1)), Len(ArgsAt(L.entry1)) - 1}
     /\ \A i \in Visits(L.tail) :
          /\ Cardinality(Visits(L.entry1)) = N + 1
          /\ Cardinality(Visits(L.entry2)) = N
          /\ trace[i].args = <<states[N + 1]>>
          /\ env[L.arg] = states[N + 1]
          /\ (N = 0 => ArgsAt(L.entry2) = <<>>
                       /\ trace[i].args = <<RefBefore(src, inp, w).env[src.ops[w].operands[1]]>>)

----------------------------------------------------------------------------
\* Properties of the pass

\* The structures a successful lowering of c created are still in the function.
StaysLowered(c) ==
  LET L == lowered[c]
  IN /\ c \notin DOMAIN ir.ops
     /\ {L.tail, L.entry1, L.entry2} \subseteq DOMAIN ir.blocks
     /\ L.arg \in Range(ir.blocks[L.tail].params)
     /\ \E o \in DOMAIN ir.ops :
          IF L.kind = "conditional"
          THEN ir.ops[o].kind = "cond_br" /\ ir.ops[o].succs = <<L.entry1, L.entry2>>
          ELSE ir.ops[o].kind = "cond_br" /\ ir.ops[o].succs = <<L.entry2, L.tail>>

\* C3: when runOnFunction completes without signalling failure, no Conditional
\* and no Loop is left in the function, and no block cloned from a region of a
\* lowered operation ends in a Return (no Return is left at all).
C3_NothingStructuredLeft ==
  pc = "done" =>
    /\ Structured(ir) = {}
    /\ \A c \in DOMAIN lowered :
         \A b \in lowered[c].clones \cap DOMAIN ir.blocks : ~EndsInReturn(ir, b)
    /\ \A o \in DOMAIN ir.ops : ir.ops[o].kind # "return"

C3_BothKindsLowered ==
  /\ pc = "done"
  /\ \E c, w \in DOMAIN lowered :
       /\ lowered[c].kind = "conditional" /\ lowered[w].kind = "while"
       /\ lowered[c].clones \cap DOMAIN ir.blocks # {}

\* The most recent lowering call, the function before it and the regions of the
\* operation it was given.
Call == last.call
Pre == last.pre
CallRegionBlocks == RegionBlocks(Pre, Call.op)

\* C4 as claimed: a block of a region of the operation ending in a terminator
\* other than Return makes the lowering return failure, and what was lowered
\* before stays lowered.
C4_AsClaimed ==
  /\ (Call.status # "none" /\ \E b \in CallRegionBlocks : ~EndsInReturn(Pre, b))
       => Call.status = "failure"
  /\ \A c \in DOMAIN lowered : StaysLowered(c)

\* C4 where no block of the Loop's condition region before the offending one
\* ends in a Return without operands.
C4_NoEmptyReturnLemma ==
  /\ (/\ Call.status # "none"
      /\ \E b \in CallRegionBlocks : ~EndsInReturn(Pre, b)
      /\ \A b \in CallRegionBlocks : EndsInReturn(Pre, b) => ReturnArity(Pre, b) > 0)
       => Call.status = "failure"
  /\ \A c \in DOMAIN lowered : StaysLowered(c)

\* The vector the running loop of runOnFunction iterates over.
Queue == IF Call.kind = "conditional" THEN conditional_ops ELSE while_ops

\* C5: every collected Conditional is lowered before any Loop is collected or
\* lowered; a failed lowering ends the pass in failure at once, the operations
\* after it in the vector stay untouched, Loops are not even collected when a
\* Conditional failed, and nothing done so far is undone.
C5_ConditionalsFirstThenAbort ==
  /\ (\/ pc \in {"lower_whiles", "done"}
      \/ while_ops # <<>>
      \/ \E w \in DOMAIN lowered : lowered[w].kind = "while")
       => Range(conditional_ops) \subseteq DOMAIN lowered
  /\ Call.status = "failure" <=> pc = "failed"
  /\ pc = "failed" =>
       /\ Queue[idx] = Call.op
       /\ \A k \in (idx + 1)..Len(Queue) :
            /\ Queue[k] \notin DOMAIN lowered
            /\ Queue[k] \in DOMAIN ir.ops
            /\ ir.ops[Queue[k]] = Pre.ops[Queue[k]]
       /\ Call.kind = "conditional" =>
            while_ops = <<>> /\ \A w \in DOMAIN lowered : lowered[w].kind # "while"
       /\ \A c \in DOMAIN lowered : StaysLowered(c)
       /\ ir # Pre
       /\ Call.op \in DOMAIN ir.ops

C5_FailedWithWorkLeft ==
  /\ pc = "failed"
  /\ idx < Len(Queue)
  /\ DOMAIN lowered # {}

\* C6: after ReplaceTerminators succeeded on a region with continuation T, the
\* clone of every block of the region holds the clones of the block's
\* operations except the Return, in order, followed by one terminator: a
\* branch to T carrying the operands of the clone's Return in order.
C6_ReturnsBecomeBranches ==
  \A R \in Call.rtOk :
    \A b \in Range(Pre.regions[R]) :
      LET nb  == Call.mapper[b]
          old == Pre.blocks[b].ops
          new == ir.blocks[nb].ops
          t   == ir.ops[new[Len(new)]]
          oldret == Pre.ops[old[Len(old)]]
      IN /\ Len(new) = Len(old)
         /\ \A k \in 1..(Len(old) - 1) :
              /\ new[k] = Call.mapper[old[k]]
              /\ new[k] \in DOMAIN ir.ops
              /\ ~IsTerminatorKind(ir.ops[new[k]].kind)
         /\ t.kind = "br"
         /\ t.succs = <<Call.tail>>
         /\ t.args = << [k \in DOMAIN oldret.operands |->
                           Lookup(Call.mapper, oldret.operands[k])] >>
         /\ Call.mapper[old[Len(old)]] \notin DOMAIN ir.ops
         /\ new[Len(new)] \notin Range(Call.mapper)

C6_TwoBlockRegionRewritten ==
  /\ Call.status = "success"
  /\ \E R \in Call.rtOk : Len(Pre.regions[R]) = 2

\* The clones of the blocks of the Loop's condition region whose Return was
\* rewritten into a conditional branch by the most recent call.
RewrittenCondBlocks ==
  IF Call.kind # "while" THEN {}
  ELSE {b \in Range(Pre.regions[Pre.ops[Call.op].regions[1]]) :
          ir.ops[Terminator(ir, Call.mapper[b])].kind = "cond_br"}

\* C7 as claimed: the conditional branch replacing the Return of a block of the
\* condition region passes that block's own parameters to both targets.
C7_AsClaimed ==
  \A b \in RewrittenCondBlocks :
    LET t == ir.ops[Terminator(ir, Call.mapper[b])]
        own == ir.blocks[Call.mapper[b]].params
    IN t.succs = <<Call.entry2, Call.tail>> /\ t.args = <<own, own>>

\* C7 as amended: the conditional branch replacing the Return of any block of
\* the condition region passes the parameters of the cloned condition ENTRY
\* block, unchanged, to both the cloned body entry and the Tail block; after a
\* successful call every block of the condition region is rewritten so.
C7_EntryBlockParameters ==
  /\ \A b \in RewrittenCondBlocks :
       LET t == ir.ops[Terminator(ir, Call.mapper[b])]
           entry == ir.blocks[Call.entry1].params
       IN /\ t.succs = <<Call.entry2, Call.tail>>
          /\ t.args = <<entry, entry>>
          /\ entry = [k \in DOMAIN entry |->
                        Call.mapper[Pre.blocks[Pre.regions[Pre.ops[Call.op].regions[1]][1]].params[k]]]
  /\ (Call.kind = "while" /\ Call.status = "success") =>
       RewrittenCondBlocks = Range(Pre.regions[Pre.ops[Call.op].regions[1]])

C7_TwoConditionBlocks ==
  /\ Call.kind = "while"
  /\ Call.status = "success"
  /\ Cardinality(RewrittenCondBlocks) = 2

\* C8 as claimed: a block of the condition region whose terminator is not a
\* Return of exactly one value makes LowerWhileOp return failure and is not
\* rewritten into a conditional branch.
C8_AsClaimed ==
  Call.kind = "while" =>
    LET bad == {b \in Range(Pre.regions[Pre.ops[Call.op].regions[1]]) :
                  ~(EndsInReturn(Pre, b) /\ ReturnArity(Pre, b) = 1)}
    IN bad # {} => /\ Call.status = "failure"
                   /\ bad \cap RewrittenCondBlocks = {}

\* What the code does instead: a terminator of another kind is rejected when
\* the loop reaches it, a Return of several values is rewritten using its
\* first value, a Return without a value traps or is rewritten using an
\* indeterminate value.
C8_OnlyNonReturnRejectedLemma ==
  Call.kind = "while" =>
    LET blocks == Range(Pre.regions[Pre.ops[Call.op].regions[1]])
    IN /\ \A b \in blocks \cap RewrittenCondBlocks :
            /\ EndsInReturn(Pre, b)
            /\ LET x == ir.ops[ir.blocks[Call.mapper[b]].ops[Len(ir.blocks[Call.mapper[b]].ops) - 1]]
               IN /\ x.kind = "extract_element"
                  /\ x.operands = IF ReturnArity(Pre, b) = 0 THEN <<Indeterminate>>
                                  ELSE <<Lookup(Call.mapper, Pre.ops[Terminator(Pre, b)].operands[1])>>
       /\ (\A b \in blocks : EndsInReturn(Pre, b) /\ ReturnArity(Pre, b) > 0)
            => RewrittenCondBlocks = blocks

\* Every block of every region of every Conditional and Loop, nested ones
\* included, ends in a Return of one value.
AllMatching(a) ==
  \A o \in Structured(a) :
    \A b \in RegionBlocks(a, o) : EndsInReturn(a, b) /\ ReturnArity(a, b) = 1

\* Every handle still to be lowered names an operation of the function.
HandlesValid ==
  /\ pc = "lower_conditionals" =>
       \A k \in idx..Len(conditional_ops) : conditional_ops[k] \in DOMAIN ir.ops
  /\ pc = "lower_whiles" =>
       \A k \in idx..Len(while_ops) : while_ops[k] \in DOMAIN ir.ops

\* C9 as claimed: on a function all of whose region blocks end in a matching
\* Return the pass does not report failure, nesting included, and every
\* collected handle is valid when its lowering starts.
C9_AsClaimed ==
  AllMatching(src) => pc \notin {"failed", "crashed"} /\ HandlesValid

\* Without nesting the pass succeeds; with nesting the handles are valid all
\* the same.
C9_FlatLemma ==
  /\ HandlesValid
  /\ (AllMatching(src) /\ \A o \in Structured(src) : o \in TopLevel(src, src.ops[o].kind))
       => pc \notin {"failed", "crashed"}

\* The branches built by the most recent call (not the clones it made).
BuiltBranches ==
  {o \in (DOMAIN ir.ops \ DOMAIN Pre.ops) \ Range(Call.mapper) :
     ir.ops[o].kind \in {"br", "cond_br"}}

BranchesFit ==
  /\ \A o \in BuiltBranches :
       \A k \in DOMAIN ir.ops[o].succs :
         /\ Len(ir.ops[o].args[k]) = Len(ir.blocks[ir.ops[o].succs[k]].params)
         /\ ir.ops[o].succs[k] = Call.tail => Len(ir.ops[o].args[k]) = 1
  /\ Len(ir.blocks[Call.tail].params) = 1
  /\ ir.blocks[Call.tail].ptypes = <<Pre.ops[Call.op].ty>>
  /\ \A o \in DOMAIN ir.ops :
       /\ Call.op \notin Range(ir.ops[o].operands)
       /\ \A k \in DOMAIN ir.ops[o].args : Call.op \notin Range(ir.ops[o].args[k])

\* C10 as claimed: after a successful lowering every branch it built carries
\* as many arguments as its target has parameters, Tail has exactly one
\* parameter of the result type, and no operand names the erased result.
C10_AsClaimed == Call.status = "success" => BranchesFit

\* C10 for operations whose regions yield one value into one-parameter entry
\* blocks.
C10_OneValueLemma ==
  (Call.status = "success" /\ OneValueRegions(Pre, Call.op)) => BranchesFit

====
